---- MODULE Spec2Model ----
(***************************************************************************)
(* VSModManager (vsmodmanager.py): the Mod record, the ModManager scanner  *)
(* and the interactive prompt loop.                                        *)
(*                                                                         *)
(* Python strings are sequences of one-character strings, so that          *)
(* str.lower, str.strip, str.split, ' '.join and str.format are computed   *)
(* character by character.                                                 *)
(***************************************************************************)
EXTENDS Integers, Sequences, FiniteSets, TLC

VARIABLES
    fs,         \* the filesystem: directory path -> [exists, files: file name -> content]
    rec,        \* a Mod object built directly from an archive (NoRec before Mod(...) ran)
    mgr,        \* the ModManager objects: instance name -> instance state
    classMods,  \* the class attribute ModManager.mods
    last,       \* the operation that ran last: its name, argument, result, exception
    pc,         \* position of the __main__ script
    stdout      \* the lines printed by the operation that ran last

vars == <<fs, rec, mgr, classMods, last, pc, stdout>>

(***************************************************************************)
(* Bounds                                                                  *)
(***************************************************************************)
\* members of a modinfo.json object
MaxKeys == 2
\* words and blanks of one input line
MaxTokens == 3

(***************************************************************************)
(* Strings                                                                 *)
(***************************************************************************)
UpperCase == <<"A","B","C","D","E","F","G","H","I","J","K","L","M",
               "N","O","P","Q","R","S","T","U","V","W","X","Y","Z">>
LowerCase == <<"a","b","c","d","e","f","g","h","i","j","k","l","m",
               "n","o","p","q","r","s","t","u","v","w","x","y","z">>
Digits == <<"0","1","2","3","4","5","6","7","8","9">>

\* str.lower on one character
LowerChar(c) ==
    IF \E i \in DOMAIN UpperCase : UpperCase[i] = c
    THEN LowerCase[CHOOSE i \in DOMAIN UpperCase : UpperCase[i] = c]
    ELSE c

\* str.lower
lower(s) == [i \in 1..Len(s) |-> LowerChar(s[i])]

\* str(n) of a natural number
RECURSIVE IntStr(_)
IntStr(n) ==
    IF n < 10 THEN <<Digits[n + 1]>>
    ELSE IntStr(n \div 10) \o <<Digits[(n % 10) + 1]>>

\* concatenation of a sequence of strings
RECURSIVE Concat(_)
Concat(ss) == IF ss = <<>> THEN <<>> ELSE Head(ss) \o Concat(Tail(ss))

\* all sequences over S of length at most n
SeqsUpTo(S, n) == UNION {[1..k -> S] : k \in 0..n}

(***************************************************************************)
(* String literals                                                         *)
(***************************************************************************)
EmptyStr == <<>>
s_name == <<"n","a","m","e">>
s_modid == <<"m","o","d","i","d">>
s_version == <<"v","e","r","s","i","o","n">>
s_description == <<"d","e","s","c","r","i","p","t","i","o","n">>
s_archive == <<"a","r","c","h","i","v","e">>
s_modinfo == <<"m","o","d","i","n","f","o">>
s_modinfo_string == <<"_","m","o","d","i","n","f","o","_","s","t","r","i","n","g">>
s_modinfo_raw == <<"_","m","o","d","i","n","f","o","_","r","a","w">>
s_init == <<"_","_","i","n","i","t","_","_">>
s_getattr == <<"_","_","g","e","t","a","t","t","r","_","_">>
s_parse_archive == <<"_","p","a","r","s","e","_","a","r","c","h","i","v","e">>
s_print_default == <<"p","r","i","n","t","_","d","e","f","a","u","l","t">>
s_print_all == <<"p","r","i","n","t","_","a","l","l">>
s_check_update == <<"_","c","h","e","c","k","_","u","p","d","a","t","e">>
s_remove == <<"r","e","m","o","v","e">>
s_update == <<"u","p","d","a","t","e">>
s_list == <<"l","i","s","t">>
s_None == <<"N","o","n","e">>
s_Mods == <<"M","o","d","s">>
s_UNKNOWN == <<"U","N","K","N","O","W","N">>
s_ModID_unknown == <<"M","o","d","I","D"," ","u","n","k","n","o","w","n">>
s_Version_unknown == <<"V","e","r","s","i","o","n"," ","u","n","k","n","o","w","n">>
s_No_description == <<"N","o"," ","d","e","s","c","r","i","p","t","i","o","n">>

data_path_default ==
    <<"/","v","a","r","/","v","i","n","t","a","g","e","s","t","o","r","y","/","d","a","t","a">>

helptext ==
    << <<"V","S","M","o","d","M","a","n","a","g","e","r"," ",
         "c","o","m","m","a","n","d","s">>,
       <<"l","i","s","t"," ","[","n","a","m","e","]">>,
       <<" "," "," "," ","-"," ","l","i","s","t"," ","a","l","l"," ",
         "a","v","a","i","l","a","b","l","e"," ","m","o","d","s"," ","o","r"," ",
         "i","n","f","o","r","m","a","t","i","o","n"," ","a","b","o","u","t"," ",
         "a"," ","s","i","n","g","l","e"," ","o","n","e">> >>

exit_message ==
    <<"E","x","i","t","i","n","g"," ","V","S","M","o","d","M","a","n","a","g","e","r",
      ".",".",".">>

(***************************************************************************)
(* Python values: a JSON string, a JSON number, null (None), or one of the *)
(* object's own attributes or bound methods.                               *)
(***************************************************************************)
Str(s) == [t |-> "str", s |-> s, n |-> 0]
Num(n) == [t |-> "num", s |-> EmptyStr, n |-> n]
None == [t |-> "none", s |-> EmptyStr, n |-> 0]
Own(attr) == [t |-> "own", s |-> attr, n |-> 0]

\* bool(v), as `or` tests it
Truthy(v) ==
    CASE v.t = "str" -> v.s # EmptyStr
      [] v.t = "num" -> v.n # 0
      [] v.t = "none" -> FALSE
      [] OTHER -> TRUE

\* str(v), as str.format and f-strings render a value
ToStr(v) ==
    CASE v.t = "str" -> v.s
      [] v.t = "num" -> IntStr(v.n)
      [] v.t = "none" -> s_None
      [] OTHER -> v.s

\* a or b
Or(a, b) == IF Truthy(a) THEN a ELSE b

(***************************************************************************)
(* dict: insertion-ordered, a sequence of [k, v] with distinct keys        *)
(***************************************************************************)
DictHas(d, k) == \E i \in DOMAIN d : d[i].k = k

DictGet(d, k) == d[CHOOSE i \in DOMAIN d : d[i].k = k].v

\* d[k] = v: an existing key keeps its position and takes the new value
DictSet(d, k, v) ==
    IF DictHas(d, k)
    THEN [i \in DOMAIN d |-> IF d[i].k = k THEN [k |-> k, v |-> v] ELSE d[i]]
    ELSE Append(d, [k |-> k, v |-> v])

DictKeys(d) == {d[i].k : i \in DOMAIN d}

\* json.loads of an object: its members in text order, a repeated name
\* taking the last value
RECURSIVE json_loads_from(_, _)
json_loads_from(d, members) ==
    IF members = <<>> THEN d
    ELSE json_loads_from(DictSet(d, Head(members).k, Head(members).v), Tail(members))

json_loads(members) == json_loads_from(<<>>, members)

(***************************************************************************)
(* Paths and file contents                                                 *)
(***************************************************************************)
\* Path / name
PathJoin(p, name) == p \o <<"/">> \o name

Absent == [kind |-> "absent", entry |-> "-", members |-> <<>>]
NotZip == [kind |-> "notzip", entry |-> "-", members |-> <<>>]
\* a zip archive without a modinfo.json entry
ZipNoModinfo == [kind |-> "zip", entry |-> "missing", members |-> <<>>]
\* a zip archive whose modinfo.json is not JSON
ZipBadJson == [kind |-> "zip", entry |-> "badjson", members |-> <<>>]
\* a zip archive whose modinfo.json is JSON but not an object (a list, a number)
ZipNonObject == [kind |-> "zip", entry |-> "nonobject", members |-> <<>>]
\* a zip archive whose modinfo.json is the JSON object with these members
ZipObject(members) == [kind |-> "zip", entry |-> "object", members |-> members]

\* the JSON objects with at most n members over these names and values
Objects(keys, values, n) == SeqsUpTo([k : keys, v : values], n)

\* a directory: whether it exists, and the content of each file name in it
\* (Absent for a name with no file)
Dir(files) == [exists |-> TRUE, files |-> files]

\* the content of file `name` of directory `dir`
FileAt(fsys, dir, name) ==
    IF dir \notin DOMAIN fsys THEN Absent
    ELSE IF ~fsys[dir].exists THEN Absent
    ELSE IF name \notin DOMAIN fsys[dir].files THEN Absent
    ELSE fsys[dir].files[name]

\* zipfile.is_zipfile
is_zipfile(content) == content.kind = "zip"

(***************************************************************************)
(* class Mod                                                               *)
(***************************************************************************)
NoRec == [archive |-> EmptyStr, raw |-> <<>>, modinfo |-> <<>>, built |-> FALSE]

\* {k.lower(): v for k, v in raw.items()}
RECURSIVE LowerKeysFrom(_, _)
LowerKeysFrom(d, raw) ==
    IF raw = <<>> THEN d
    ELSE LowerKeysFrom(DictSet(d, lower(Head(raw).k), Head(raw).v), Tail(raw))

\* the members kept under their names as written
LowerKeys_keep_case(raw) == raw

LowerKeys(raw) == LowerKeysFrom(<<>>, raw)

\* Mod._parse_archive: the exception it raises ("none" when it returns)
ParseExc(content) ==
    CASE content.kind = "absent" -> "FileNotFoundError"
      [] content.kind = "notzip" -> "BadZipFile"
      [] content.entry = "missing" -> "KeyError"
      [] content.entry = "badjson" -> "JSONDecodeError"
      [] content.entry = "nonobject" -> "AttributeError"
      [] OTHER -> "none"

\* Mod(archive): [exc, mod]
ModNew(fsys, dir, name) ==
    LET content == FileAt(fsys, dir, name)
        exc == ParseExc(content)
        raw == json_loads(content.members)
    IN  IF exc # "none" THEN [exc |-> exc, mod |-> NoRec]
        ELSE [exc |-> "none",
              mod |-> [archive |-> PathJoin(dir, name),
                       raw |-> raw,
                       modinfo |-> LowerKeys(raw),
                       built |-> TRUE]]

\* the attributes Mod.__init__ and Mod._parse_archive set on the instance
InstanceAttrs == {s_archive, s_modinfo, s_modinfo_string, s_modinfo_raw}

\* the methods class Mod defines
ClassAttrs == {s_init, s_getattr, s_parse_archive, s_print_default, s_print_all,
               s_check_update, s_remove, s_update}

\* self.modinfo.get(name): None for a missing key
getattr_fallback_none(mod, name) ==
    IF DictHas(mod.modinfo, name) THEN DictGet(mod.modinfo, name) ELSE None

\* Mod.__getattr__(name)
getattr_fallback(mod, name) ==
    IF DictHas(mod.modinfo, name) THEN DictGet(mod.modinfo, name) ELSE Str(EmptyStr)

\* mod.<name>: Python calls __getattr__ only when the instance and the class
\* have no attribute of that name
GetAttr(mod, name) ==
    IF name \in InstanceAttrs \cup ClassAttrs THEN Own(name)
    ELSE getattr_fallback(mod, name)

\* the summary line without the placeholders
print_default_plain(mod) ==
    Concat(<< ToStr(GetAttr(mod, s_name)), <<" ", "(">>,
              ToStr(GetAttr(mod, s_modid)), <<")", " ", "[">>,
              ToStr(GetAttr(mod, s_version)), <<"]", " ", "-", " ">>,
              ToStr(GetAttr(mod, s_description)) >>)

\* Mod.print_default: the line it prints
print_default(mod) ==
    Concat(<< ToStr(Or(GetAttr(mod, s_name), Str(s_UNKNOWN))),
              <<" ", "(">>,
              ToStr(Or(GetAttr(mod, s_modid), Str(s_ModID_unknown))),
              <<")", " ", "[">>,
              ToStr(Or(GetAttr(mod, s_version), Str(s_Version_unknown))),
              <<"]", " ", "-", " ">>,
              ToStr(Or(GetAttr(mod, s_description), Str(s_No_description))) >>)

\* Mod.print_all: the lines it prints
print_all(mod) ==
    << <<"M","o","d"," ","l","o","c","a","t","e","d"," ","a","t"," ","\"">>
         \o mod.archive \o <<"\"", ":">>,
       EmptyStr >>
    \o [i \in DOMAIN mod.modinfo |->
          mod.modinfo[i].k \o <<":", " ">> \o ToStr(mod.modinfo[i].v)]

(***************************************************************************)
(* The record of the operation that ran last                               *)
(***************************************************************************)
Op(op, who, arg, exc, val, found) ==
    [op |-> op, who |-> who, arg |-> arg, exc |-> exc, val |-> val, found |-> found]

NoOp == Op("none", "-", EmptyStr, "none", None, <<>>)

(***************************************************************************)
(* SpecMod: one archive, the Mod built from it, and the calls on it        *)
(***************************************************************************)
s_a_zip == <<"a",".","z","i","p">>
s_b_zip == <<"b",".","z","i","p">>
s_c_txt == <<"c",".","t","x","t">>

mods_path_default == PathJoin(data_path_default, s_Mods)

\* names of the members of the modinfo.json under test
ModKeys ==
    { <<"N","a","m","e">>, <<"N","A","M","E">>, <<"M","o","d","I","D">>,
      <<"V","e","r","s","i","o","n">>, <<"D","e","s","c","r","i","p","t","i","o","n">>,
      <<"A","r","c","h","i","v","e">> }

\* their values
ModValues == { Str(EmptyStr), Str(<<"A","b">>), Num(0), Num(7), None }

\* the archives under test
ModContents ==
    {NotZip, ZipNoModinfo, ZipBadJson, ZipNonObject}
    \cup {ZipObject(o) : o \in Objects(ModKeys, ModValues, MaxKeys)}

\* the attribute names requested
AttrNames ==
    ModKeys \cup {lower(k) : k \in ModKeys} \cup {s_update, s_modinfo, <<"x">>}

InitMod ==
    /\ fs \in {[d \in {mods_path_default} |-> Dir([f \in {s_a_zip} |-> c])] : c \in ModContents}
    /\ rec = NoRec
    /\ mgr = <<>>
    /\ classMods = <<>>
    /\ last = NoOp
    /\ pc = "mod"
    /\ stdout = <<>>

\* rec = Mod(archive)
ModConstruct ==
    /\ last.op = "none"
    /\ LET r == ModNew(fs, mods_path_default, s_a_zip)
       IN  /\ rec' = r.mod
           /\ last' = Op("Mod", "-", PathJoin(mods_path_default, s_a_zip), r.exc, None, <<>>)
    /\ stdout' = <<>>
    /\ UNCHANGED <<fs, mgr, classMods, pc>>

\* rec.<name>
ModGetAttr(name) ==
    /\ rec.built
    /\ last' = Op("getattr", "-", name, "none", GetAttr(rec, name), <<>>)
    /\ stdout' = <<>>
    /\ UNCHANGED <<fs, rec, mgr, classMods, pc>>

\* rec.print_default()
ModPrintDefault ==
    /\ rec.built
    /\ last' = Op("print_default", "-", EmptyStr, "none", None, <<>>)
    /\ stdout' = <<print_default(rec)>>
    /\ UNCHANGED <<fs, rec, mgr, classMods, pc>>

\* rec.print_all()
ModPrintAll ==
    /\ rec.built
    /\ last' = Op("print_all", "-", EmptyStr, "none", None, <<>>)
    /\ stdout' = print_all(rec)
    /\ UNCHANGED <<fs, rec, mgr, classMods, pc>>

NextMod ==
    \/ ModConstruct
    \/ \E name \in AttrNames : ModGetAttr(name)
    \/ ModPrintDefault
    \/ ModPrintAll

SpecMod == InitMod /\ [][NextMod]_vars

(***************************************************************************)
(* class ModManager                                                        *)
(***************************************************************************)
\* an instance: data_path, mods_path, and its own `mods` attribute once
\* _mods_refresh has assigned it (hasMods)
NoMgr == [built |-> FALSE, data_path |-> EmptyStr, mods_path |-> EmptyStr,
          hasMods |-> FALSE, mods |-> <<>>]

\* self.mods: the instance attribute, else the class attribute
SelfMods(inst, cls) == IF inst.hasMods THEN inst.mods ELSE cls

\* the data_path argument: None, or a Path
NoArg == [given |-> FALSE, path |-> EmptyStr]
PathArg(p) == [given |-> TRUE, path |-> p]

\* the file names present in a directory
Present(fsys, dir) ==
    {f \in DOMAIN fsys[dir].files : fsys[dir].files[f].kind # "absent"}

\* the orders in which iterdir may yield the entries of a directory
IterOrders(fsys, dir) ==
    {o \in [1..Cardinality(Present(fsys, dir)) -> Present(fsys, dir)] :
        \A i, j \in DOMAIN o : i # j => o[i] # o[j]}

\* [f for f in self.mods_path.iterdir() if zipfile.is_zipfile(f)]
RECURSIVE mod_archives(_, _, _)
mod_archives(fsys, dir, order) ==
    IF order = <<>> THEN <<>>
    ELSE (IF is_zipfile(FileAt(fsys, dir, Head(order))) THEN <<Head(order)>> ELSE <<>>)
         \o mod_archives(fsys, dir, Tail(order))

\* [Mod(f) for f in mod_archives]: the list, or the exception of the first
\* Mod(f) that raises, with the records built until then
RECURSIVE build_mods(_, _, _, _)
build_mods(fsys, dir, archives, acc) ==
    IF archives = <<>> THEN [exc |-> "none", mods |-> acc]
    ELSE LET r == ModNew(fsys, dir, Head(archives))
         IN  IF r.exc # "none" THEN [exc |-> r.exc, mods |-> acc]
             ELSE build_mods(fsys, dir, Tail(archives), Append(acc, r.mod))

\* the two comprehensions of _mods_refresh
scan(fsys, dir, order) ==
    IF ~fsys[dir].exists THEN [exc |-> "FileNotFoundError", mods |-> <<>>]
    ELSE build_mods(fsys, dir, mod_archives(fsys, dir, order), <<>>)

\* self.mods = self.mods + [...]: the new records added to the old ones
refresh_assign_extend(inst, cls, r) ==
    [inst |-> IF r.exc = "none"
              THEN [inst EXCEPT !.hasMods = TRUE, !.mods = SelfMods(inst, cls) \o r.mods]
              ELSE inst,
     cls |-> cls]

\* the list filled record by record, so that a failure leaves what was built
refresh_assign_partial(inst, cls, r) ==
    [inst |-> [inst EXCEPT !.hasMods = TRUE, !.mods = r.mods], cls |-> cls]

\* ModManager.mods[:] = [...]: the class-level list filled in place
refresh_assign_inplace(inst, cls, r) ==
    [inst |-> inst, cls |-> IF r.exc = "none" THEN r.mods ELSE cls]

\* self.mods = [...]: binds the instance attribute when the comprehension
\* returned, binds nothing when it raised; the class attribute is not touched
refresh_assign(inst, cls, r) ==
    [inst |-> IF r.exc = "none"
              THEN [inst EXCEPT !.hasMods = TRUE, !.mods = r.mods]
              ELSE inst,
     cls |-> cls]

\* ModManager.__init__ up to the call of _mods_refresh
mgr_init(arg) ==
    LET data_path == IF ~arg.given THEN data_path_default ELSE arg.path
    IN  [built |-> TRUE, data_path |-> data_path,
         mods_path |-> PathJoin(data_path, s_Mods),
         hasMods |-> FALSE, mods |-> <<>>]

\* str.lower of a value: AttributeError on a value that is no string
LowerExc(v) == IF v.t = "str" THEN "none" ELSE "AttributeError"

\* modid in (mod.name.lower(), mod.modid.lower()), with the exception the
\* tuple's construction raises
match(mod, q) ==
    LET name == GetAttr(mod, s_name)
        modid == GetAttr(mod, s_modid)
    IN  IF LowerExc(name) # "none" THEN [exc |-> LowerExc(name), hit |-> FALSE]
        ELSE IF LowerExc(modid) # "none" THEN [exc |-> LowerExc(modid), hit |-> FALSE]
        ELSE [exc |-> "none", hit |-> q \in {lower(name.s), lower(modid.s)}]

\* ModManager._mods_get(modid): [exc, mods]
RECURSIVE mods_get_from(_, _, _)
mods_get_from(mods, q, acc) ==
    IF mods = <<>> THEN [exc |-> "none", mods |-> acc]
    ELSE LET r == match(Head(mods), q)
         IN  IF r.exc # "none" THEN [exc |-> r.exc, mods |-> <<>>]
             ELSE mods_get_from(Tail(mods), q,
                                IF r.hit THEN Append(acc, Head(mods)) ELSE acc)

mods_get(mods, modid) == mods_get_from(mods, lower(modid), <<>>)

\* ModManager.mods_lists: the lines it prints
mods_lists(mods) == [i \in DOMAIN mods |-> print_default(mods[i])]

\* ModManager.mod_list(modid): [exc, mods, out]
mod_list(mods, modid) ==
    LET r == mods_get(mods, modid)
    IN  [exc |-> r.exc, mods |-> r.mods,
         out |-> Concat([i \in DOMAIN r.mods |-> print_all(r.mods[i])])]

\* the methods whose body is `pass` or a docstring alone: what a call does
\* ("none": it returns None)
StubExc(op) == "none"

(***************************************************************************)
(* SpecScan: two mods directories that change on disk, and two ModManager  *)
(* instances constructed over them and refreshed                           *)
(***************************************************************************)
Mgrs == {"m1", "m2"}

other_data_path == <<"/","d">>
mods_path_other == PathJoin(other_data_path, s_Mods)

ScanDirs == {mods_path_default, mods_path_other}

\* the file names each directory may hold
ScanFiles(dir) == IF dir = mods_path_default THEN {s_a_zip, s_c_txt} ELSE {s_b_zip}

\* the contents written to them
ScanObjects ==
    { << [k |-> <<"N","a","m","e">>, v |-> Str(<<"A","b">>)],
         [k |-> <<"M","o","d","I","D">>, v |-> Str(<<"a","b">>)] >> }

ScanContents ==
    {NotZip, ZipNoModinfo, ZipBadJson} \cup {ZipObject(o) : o \in ScanObjects}

DataPathArgs == {NoArg, PathArg(data_path_default), PathArg(other_data_path)}

MgrStubs == {"mod_install", "mod_remove"}
ModStubs == {"_check_update", "remove", "update"}

EmptyDir(dir) == Dir([f \in ScanFiles(dir) |-> Absent])

InitScan ==
    /\ fs = [d \in ScanDirs |-> EmptyDir(d)]
    /\ rec = NoRec
    /\ mgr = [m \in Mgrs |-> NoMgr]
    /\ classMods = <<>>
    /\ last = NoOp
    /\ pc = "scan"
    /\ stdout = <<>>

\* a file is written, or replaced, in a mods directory
WriteFile(dir, f, content) ==
    /\ fs[dir].exists
    /\ fs' = [fs EXCEPT ![dir].files[f] = content]
    /\ last' = Op("fs", "-", EmptyStr, "none", None, <<>>)
    /\ stdout' = <<>>
    /\ UNCHANGED <<rec, mgr, classMods, pc>>

\* a file is deleted
DeleteFile(dir, f) ==
    /\ fs[dir].exists
    /\ fs[dir].files[f].kind # "absent"
    /\ fs' = [fs EXCEPT ![dir].files[f] = Absent]
    /\ last' = Op("fs", "-", EmptyStr, "none", None, <<>>)
    /\ stdout' = <<>>
    /\ UNCHANGED <<rec, mgr, classMods, pc>>

\* a mods directory is removed with what it holds
RemoveDir(dir) ==
    /\ fs[dir].exists
    /\ fs' = [fs EXCEPT ![dir] = [exists |-> FALSE, files |-> EmptyDir(dir).files]]
    /\ last' = Op("fs", "-", EmptyStr, "none", None, <<>>)
    /\ stdout' = <<>>
    /\ UNCHANGED <<rec, mgr, classMods, pc>>

\* a mods directory is created
MakeDir(dir) ==
    /\ ~fs[dir].exists
    /\ fs' = [fs EXCEPT ![dir] = EmptyDir(dir)]
    /\ last' = Op("fs", "-", EmptyStr, "none", None, <<>>)
    /\ stdout' = <<>>
    /\ UNCHANGED <<rec, mgr, classMods, pc>>

\* ModManager(arg): an exception of _mods_refresh leaves no instance
ModManagerNew(m, arg) ==
    /\ ~mgr[m].built
    /\ LET inst == mgr_init(arg)
       IN  \E order \in IterOrders(fs, inst.mods_path) :
             LET r == scan(fs, inst.mods_path, order)
                 a == refresh_assign(inst, classMods, r)
             IN  /\ mgr' = [mgr EXCEPT ![m] = IF r.exc = "none" THEN a.inst ELSE NoMgr]
                 /\ classMods' = a.cls
                 /\ last' = Op("ModManager", m, inst.mods_path, r.exc, None, r.mods)
    /\ stdout' = <<>>
    /\ UNCHANGED <<fs, rec>>

\* m = ModManager(arg), called outside the script
Construct(m, arg) == ModManagerNew(m, arg) /\ UNCHANGED pc

\* m._mods_refresh()
Refresh(m) ==
    /\ mgr[m].built
    /\ \E order \in IterOrders(fs, mgr[m].mods_path) :
         LET r == scan(fs, mgr[m].mods_path, order)
             a == refresh_assign(mgr[m], classMods, r)
         IN  /\ mgr' = [mgr EXCEPT ![m] = a.inst]
             /\ classMods' = a.cls
             /\ last' = Op("_mods_refresh", m, mgr[m].mods_path, r.exc, None, r.mods)
    /\ stdout' = <<>>
    /\ UNCHANGED <<fs, rec, pc>>

\* m.mod_install() and m.mod_remove(modid)
MgrStub(m, op) ==
    /\ mgr[m].built
    /\ last' = Op(op, m, EmptyStr, StubExc(op), None, <<>>)
    /\ stdout' = <<>>
    /\ UNCHANGED <<fs, rec, mgr, classMods, pc>>

\* m.mods[i]._check_update(), .remove() and .update(version)
ModStub(m, i, op) ==
    /\ mgr[m].built
    /\ i \in DOMAIN SelfMods(mgr[m], classMods)
    /\ last' = Op(op, m, SelfMods(mgr[m], classMods)[i].archive, StubExc(op), None, <<>>)
    /\ stdout' = <<>>
    /\ UNCHANGED <<fs, rec, mgr, classMods, pc>>

\* m.mods_lists()
MgrList(m) ==
    /\ mgr[m].built
    /\ last' = Op("mods_lists", m, EmptyStr, "none", None, <<>>)
    /\ stdout' = mods_lists(SelfMods(mgr[m], classMods))
    /\ UNCHANGED <<fs, rec, mgr, classMods, pc>>

NextScan ==
    \/ \E d \in ScanDirs : \E f \in ScanFiles(d), c \in ScanContents : WriteFile(d, f, c)
    \/ \E d \in ScanDirs : \E f \in ScanFiles(d) : DeleteFile(d, f)
    \/ \E d \in ScanDirs : RemoveDir(d)
    \/ \E d \in ScanDirs : MakeDir(d)
    \/ \E m \in Mgrs, arg \in DataPathArgs : Construct(m, arg)
    \/ \E m \in Mgrs : Refresh(m)

SpecScan == InitScan /\ [][NextScan]_vars

(***************************************************************************)
(* SpecStubs: one archive in the default mods directory, a ModManager over *)
(* it, and the calls of the methods that have no body                      *)
(***************************************************************************)
InitStubs ==
    /\ fs \in {[d \in {mods_path_default} |-> Dir([f \in {s_a_zip} |-> c])] :
                  c \in ModContents}
    /\ rec = NoRec
    /\ mgr = [m \in {"m1"} |-> NoMgr]
    /\ classMods = <<>>
    /\ last = NoOp
    /\ pc = "stubs"
    /\ stdout = <<>>

NextStubs ==
    \/ \E arg \in {NoArg, PathArg(data_path_default)} : Construct("m1", arg)
    \/ \E op \in MgrStubs : MgrStub("m1", op)
    \/ \E op \in ModStubs : ModStub("m1", 1, op)
    \/ MgrList("m1")

SpecStubs == InitStubs /\ [][NextStubs]_vars

(***************************************************************************)
(* The __main__ script: the prompt loop                                    *)
(***************************************************************************)
IsSpace(c) == c \in {" ", "\t"}

\* str.strip
RECURSIVE lstrip(_)
lstrip(s) == IF s # <<>> /\ IsSpace(Head(s)) THEN lstrip(Tail(s)) ELSE s

RECURSIVE rstrip(_)
rstrip(s) ==
    IF s # <<>> /\ IsSpace(s[Len(s)]) THEN rstrip(SubSeq(s, 1, Len(s) - 1)) ELSE s

strip(s) == rstrip(lstrip(s))

\* str.split(): the words between runs of whitespace
RECURSIVE split_from(_, _, _)
split_from(s, cur, acc) ==
    IF s = <<>> THEN (IF cur = <<>> THEN acc ELSE Append(acc, cur))
    ELSE IF IsSpace(Head(s))
         THEN split_from(Tail(s), <<>>, IF cur = <<>> THEN acc ELSE Append(acc, cur))
         ELSE split_from(Tail(s), Append(cur, Head(s)), acc)

split(s) == split_from(s, <<>>, <<>>)

\* sep.join(words)
RECURSIVE join(_, _)
join(sep, words) ==
    IF words = <<>> THEN <<>>
    ELSE IF Len(words) = 1 THEN Head(words)
    ELSE Head(words) \o sep \o join(sep, Tail(words))

\* session.prompt('> ').lower().strip().split()
parse_cmd(line) == split(strip(lower(line)))

\* what one pass of the loop body does with the line read: the operation
\* called, its argument, the exception that leaves the loop, the lines printed
dispatch(mods, line) ==
    LET cmd == parse_cmd(line)
    IN  IF cmd = <<>>
        THEN [op |-> "help", arg |-> EmptyStr, exc |-> "none", found |-> <<>>,
              out |-> helptext]
        ELSE IF cmd[1] = s_list
        THEN IF Len(cmd) > 1
             THEN LET q == join(<<" ">>, Tail(cmd))
                      r == mod_list(mods, q)
                  IN  [op |-> "mod_list", arg |-> q, exc |-> r.exc, found |-> r.mods,
                       out |-> r.out]
             ELSE [op |-> "mods_lists", arg |-> EmptyStr, exc |-> "none",
                   found |-> <<>>, out |-> mods_lists(mods)]
        ELSE [op |-> "help", arg |-> EmptyStr, exc |-> "none", found |-> <<>>,
              out |-> helptext]

(***************************************************************************)
(* SpecLoop: the script over a default mods directory of two files         *)
(***************************************************************************)
LoopValues == { Str(<<"a","b"," ","A","B">>), Num(7) }

k_Name == <<"N","a","m","e">>
k_ModID == <<"M","o","d","I","D">>

\* the JSON objects with an optional Name and an optional ModID
LoopObjects ==
    {<<>>}
    \cup {<< [k |-> k_Name, v |-> n] >> : n \in LoopValues}
    \cup {<< [k |-> k_ModID, v |-> i] >> : i \in LoopValues}
    \cup {<< [k |-> k_Name, v |-> n], [k |-> k_ModID, v |-> i] >> :
             n \in LoopValues, i \in LoopValues}

LoopContents ==
    {Absent, NotZip, ZipNoModinfo} \cup {ZipObject(o) : o \in LoopObjects}

\* the pieces the input lines are made of
Tokens ==
    { <<"l","i","s","t"," ">>, <<"L","I","S","T">>, <<"A","b"," ">>, <<" ">> }

InputLines == {Concat(ts) : ts \in SeqsUpTo(Tokens, MaxTokens)}

InitLoop ==
    /\ fs \in {[d \in {mods_path_default} |->
                  Dir([f \in {s_a_zip, s_b_zip} |-> IF f = s_a_zip THEN ca ELSE cb])] :
               ca \in LoopContents, cb \in LoopContents}
    /\ rec = NoRec
    /\ mgr = [m \in {"modmanager"} |-> NoMgr]
    /\ classMods = <<>>
    /\ last = NoOp
    /\ pc = "start"
    /\ stdout = <<>>

\* modmanager = ModManager(): an exception ends the script
Startup ==
    /\ pc = "start"
    /\ ModManagerNew("modmanager", NoArg)
    /\ pc' = IF last'.exc = "none" THEN "prompt" ELSE "crashed"

\* a line is read and the command run to its end; an exception of the
\* command is caught nowhere and ends the script
ReadLine(line) ==
    /\ pc = "prompt"
    /\ LET d == dispatch(SelfMods(mgr["modmanager"], classMods), line)
       IN  /\ last' = Op(d.op, "modmanager", d.arg, d.exc, None, d.found)
           /\ stdout' = d.out
           /\ pc' = IF d.exc = "none" THEN "prompt" ELSE "crashed"
    /\ UNCHANGED <<fs, rec, mgr, classMods>>

\* KeyboardInterrupt while the prompt waits
Interrupt ==
    /\ pc = "prompt"
    /\ last' = Op("KeyboardInterrupt", "modmanager", EmptyStr, "none", None, <<>>)
    /\ stdout' = <<>>
    /\ UNCHANGED <<fs, rec, mgr, classMods, pc>>

\* EOFError while the prompt waits: the loop is left, the exit message printed
EndOfInput ==
    /\ pc = "prompt"
    /\ last' = Op("EOFError", "modmanager", EmptyStr, "none", None, <<>>)
    /\ stdout' = <<exit_message>>
    /\ pc' = "exited"
    /\ UNCHANGED <<fs, rec, mgr, classMods>>

NextLoop ==
    \/ Startup
    \/ \E line \in InputLines : ReadLine(line)
    \/ Interrupt
    \/ EndOfInput

SpecLoop == InitLoop /\ [][NextLoop]_vars

(***************************************************************************)
(* Claims on the Mod record (SpecMod)                                      *)
(***************************************************************************)
OwnAttrs == InstanceAttrs \cup ClassAttrs

\* the members of the parsed modinfo.json whose name is `name` in some casing
SameKey(mod, name) == {i \in DOMAIN mod.raw : lower(mod.raw[i].k) = lower(name)}

MaxOf(S) == CHOOSE i \in S : \A j \in S : j <= i

\* the position of the summary line for `key`, when the placeholder stands
\* for a value that is missing or false (empty string, 0, null)
ShownOrPlaceholder(mod, key, placeholder) ==
    IF DictHas(mod.modinfo, key) /\ Truthy(DictGet(mod.modinfo, key))
    THEN ToStr(DictGet(mod.modinfo, key))
    ELSE placeholder

\* the position of the summary line for `key`, when the placeholder stands
\* exactly for a missing key
ShownWhenPresent(mod, key, placeholder) ==
    IF DictHas(mod.modinfo, key) THEN ToStr(DictGet(mod.modinfo, key)) ELSE placeholder

SummaryLine(name, modid, version, desc) ==
    name \o <<" ", "(">> \o modid \o <<")", " ", "[">> \o version
         \o <<"]", " ", "-", " ">> \o desc

\* C1 as stated: field access by any casing of a known key returns the value
\* stored under that key.
C1_AnyCasingReturnsValue ==
    (last.op = "getattr" /\ rec.built) =>
        \A i \in SameKey(rec, last.arg) : last.val = rec.raw[i].v

\* C1 amended: access by the all-lowercase spelling of a known key returns the
\* value stored under that key (under the last such key of modinfo.json when
\* several differ only by case), unless the lowercase name is an attribute or
\* method of the record itself, which is what access then returns; access by a
\* spelling with an uppercase letter returns the empty string.
C1_LowercaseAccessReturnsValue ==
    (last.op = "getattr" /\ rec.built /\ SameKey(rec, last.arg) # {}) =>
        /\ last.exc = "none"
        /\ last.val =
             IF last.arg # lower(last.arg) THEN Str(EmptyStr)
             ELSE IF last.arg \in OwnAttrs THEN Own(last.arg)
             ELSE rec.raw[MaxOf(SameKey(rec, last.arg))].v

\* C1 witness: a key stored in mixed case was read by its lowercase spelling
\* and the stored, non-empty value came back.
C1_Witness ==
    /\ last.op = "getattr" /\ rec.built
    /\ last.arg = s_name
    /\ \E i \in DOMAIN rec.raw : rec.raw[i].k # lower(rec.raw[i].k)
                                  /\ lower(rec.raw[i].k) = s_name
    /\ last.val = Str(<<"A","b">>)

\* C2 as stated: access to any field name that is not a key of the metadata
\* returns the empty string and does not raise.
C2_AbsentFieldIsEmpty ==
    (last.op = "getattr" /\ rec.built /\ ~DictHas(rec.modinfo, last.arg)) =>
        (last.exc = "none" /\ last.val = Str(EmptyStr))

\* C2 amended: access never raises; for a field name that is neither a key of
\* the metadata nor an attribute or method of the record itself it returns
\* the empty string.
C2_AbsentFieldIsEmptyUnlessOwn ==
    (last.op = "getattr" /\ rec.built) =>
        /\ last.exc = "none"
        /\ (~DictHas(rec.modinfo, last.arg) /\ last.arg \notin OwnAttrs)
              => last.val = Str(EmptyStr)

\* C2 witness: a name that is no key of a non-empty metadata was read and the
\* empty string came back.
C2_Witness ==
    /\ last.op = "getattr" /\ rec.built
    /\ rec.modinfo # <<>>
    /\ ~DictHas(rec.modinfo, last.arg)
    /\ last.arg \notin OwnAttrs
    /\ last.val = Str(EmptyStr)

\* C5 as stated: each position of the default summary shows the metadata
\* value when the key is present and the placeholder exactly when it is missing.
C5_PlaceholderIffMissing ==
    (last.op = "print_default" /\ rec.built) =>
        stdout = << SummaryLine(ShownWhenPresent(rec, s_name, s_UNKNOWN),
                                ShownWhenPresent(rec, s_modid, s_ModID_unknown),
                                ShownWhenPresent(rec, s_version, s_Version_unknown),
                                ShownWhenPresent(rec, s_description, s_No_description)) >>

\* C5 amended: each position shows the metadata value when the key is present
\* with a value that is not false, and the placeholder when the key is
\* missing or its value is false (empty string, 0, null).
C5_PlaceholderIffMissingOrFalse ==
    (last.op = "print_default" /\ rec.built) =>
        stdout = << SummaryLine(ShownOrPlaceholder(rec, s_name, s_UNKNOWN),
                                ShownOrPlaceholder(rec, s_modid, s_ModID_unknown),
                                ShownOrPlaceholder(rec, s_version, s_Version_unknown),
                                ShownOrPlaceholder(rec, s_description, s_No_description)) >>

\* C5 witness: the summary of a record with a mod-id and a version only was
\* printed: UNKNOWN (Ab) [7] - No description
C5_Witness ==
    /\ last.op = "print_default" /\ rec.built
    /\ DictKeys(rec.modinfo) = {s_modid, s_version}
    /\ stdout = << <<"U","N","K","N","O","W","N"," ","(","A","b",")"," ","[","7","]",
                     " ","-"," ","N","o"," ","d","e","s","c","r","i","p","t","i","o","n">> >>

(***************************************************************************)
(* Claims on the scanner (SpecScan, SpecStubs)                             *)
(***************************************************************************)
RefreshOps == {"ModManager", "_mods_refresh"}

\* the files of a directory that are zip archives holding a modinfo.json object
ValidArchives(fsys, dir) ==
    {f \in Present(fsys, dir) :
        fsys[dir].files[f].kind = "zip" /\ fsys[dir].files[f].entry = "object"}

\* the files of a directory that are zip archives without a usable modinfo.json
OffendingArchives(fsys, dir) ==
    {f \in Present(fsys, dir) :
        fsys[dir].files[f].kind = "zip" /\ fsys[dir].files[f].entry # "object"}

NonZipFiles(fsys, dir) ==
    {f \in Present(fsys, dir) : fsys[dir].files[f].kind = "notzip"}

\* the record a valid archive parses to: its path and its members by
\* lowercased name
RecordOf(fsys, dir, f) ==
    [archive |-> PathJoin(dir, f),
     raw |-> json_loads(fsys[dir].files[f].members),
     modinfo |-> LowerKeys(json_loads(fsys[dir].files[f].members)),
     built |-> TRUE]

\* `mods` holds exactly one record per valid archive of the directory
OnePerValidArchive(fsys, dir, mods) ==
    /\ Len(mods) = Cardinality(ValidArchives(fsys, dir))
    /\ \A f \in ValidArchives(fsys, dir) :
          \E i \in DOMAIN mods : mods[i] = RecordOf(fsys, dir, f)
    /\ \A i \in DOMAIN mods :
          \E f \in ValidArchives(fsys, dir) : mods[i].archive = PathJoin(dir, f)

\* path lies directly in directory dir
IsUnder(path, dir) ==
    /\ Len(path) > Len(dir) + 1
    /\ SubSeq(path, 1, Len(dir) + 1) = dir \o <<"/">>

\* C3: after a successful refresh the mods list holds exactly one record per
\* valid archive now in the mods directory and none for the files that are
\* not zip archives, whatever the list held before.
C3_RefreshYieldsOnePerValidArchive ==
    (last.op \in RefreshOps /\ last.exc = "none") =>
        LET inst == mgr[last.who]
            mods == SelfMods(inst, classMods)
        IN  /\ inst.built /\ inst.hasMods
            /\ OnePerValidArchive(fs, inst.mods_path, mods)
            /\ \A i \in DOMAIN mods, f \in NonZipFiles(fs, inst.mods_path) :
                  mods[i].archive # PathJoin(inst.mods_path, f)

\* C3 witness: a second refresh over a directory with one valid archive and
\* one file that is no zip archive left exactly one record.
C3_Witness ==
    /\ last.op = "_mods_refresh" /\ last.exc = "none"
    /\ Cardinality(ValidArchives(fs, mgr[last.who].mods_path)) = 1
    /\ Cardinality(NonZipFiles(fs, mgr[last.who].mods_path)) = 1
    /\ Len(mgr[last.who].mods) = 1

\* C7: a call of an unimplemented operation fails with a not-implemented
\* signal and never returns normally.
C7_StubsRaiseNotImplemented ==
    (last.op \in MgrStubs \cup ModStubs) => last.exc = "NotImplementedError"

\* C8: a refresh over a directory that holds a zip archive without a usable
\* modinfo.json alongside valid archives skips that archive and still leaves
\* the scanner with one record per valid archive.
C8_OffendingArchiveSkipped ==
    (/\ last.op \in RefreshOps
     /\ fs[last.arg].exists
     /\ OffendingArchives(fs, last.arg) # {}
     /\ ValidArchives(fs, last.arg) # {}) =>
        /\ mgr[last.who].built
        /\ mgr[last.who].hasMods
        /\ OnePerValidArchive(fs, last.arg, mgr[last.who].mods)

\* C9: a refresh that fails leaves the instance, its mods list included,
\* exactly as it was; a refresh that succeeds leaves the complete list.
C9_RefreshAtomic ==
    [][\A m \in DOMAIN mgr :
          (last'.op \in RefreshOps /\ last'.who = m) =>
             IF last'.exc = "none"
             THEN OnePerValidArchive(fs', mgr'[m].mods_path, mgr'[m].mods)
             ELSE mgr'[m] = mgr[m] /\ classMods' = classMods]_vars

\* C9 witness: a refresh failed on an archive after it had built a record,
\* and the instance holds another list than the records built.
C9_Witness ==
    /\ last.op = "_mods_refresh" /\ last.exc \in {"KeyError", "JSONDecodeError"}
    /\ last.found # <<>>
    /\ mgr[last.who].hasMods
    /\ mgr[last.who].mods # last.found

\* C10: the class-level list stays empty, every instance holds records of
\* its own mods directory only, and a construction or refresh of one
\* instance leaves the other instances as they were.
C10_NoSharedRecords ==
    /\ [](/\ classMods = <<>>
          /\ \A m \in DOMAIN mgr :
                mgr[m].built =>
                   \A i \in DOMAIN SelfMods(mgr[m], classMods) :
                      IsUnder(SelfMods(mgr[m], classMods)[i].archive, mgr[m].mods_path))
    /\ [][\A m \in DOMAIN mgr :
            (last'.op \in RefreshOps /\ last'.who # m) => mgr'[m] = mgr[m]]_vars

\* C10 witness: two instances over different directories, each holding a
\* record, after a refresh.
C10_Witness ==
    /\ last.op = "_mods_refresh"
    /\ mgr["m1"].built /\ mgr["m2"].built
    /\ mgr["m1"].mods_path # mgr["m2"].mods_path
    /\ mgr["m1"].mods # <<>> /\ mgr["m2"].mods # <<>>

(***************************************************************************)
(* Claims on lookup and the prompt loop (SpecLoop)                         *)
(***************************************************************************)
\* the value of a metadata field, the empty string when it is missing
FieldOf(mod, key) ==
    IF DictHas(mod.modinfo, key) THEN DictGet(mod.modinfo, key) ELSE Str(EmptyStr)

\* value v is a string equal to q when case is ignored
EqualsIgnoringCase(v, q) == v.t = "str" /\ lower(v.s) = lower(q)

MatchesQuery(mod, q) ==
    \/ EqualsIgnoringCase(FieldOf(mod, s_name), q)
    \/ EqualsIgnoringCase(FieldOf(mod, s_modid), q)

\* C4: lookup returns, in scan order, exactly the records whose name or
\* mod-id equals the query when case is ignored, and never raises; with no
\* match list-one prints nothing.
C4_LookupReturnsMatches ==
    (last.op = "mod_list") =>
        /\ last.exc = "none"
        /\ last.found = SelectSeq(SelfMods(mgr["modmanager"], classMods),
                                  LAMBDA mod : MatchesQuery(mod, last.arg))
        /\ (last.found = <<>> => stdout = <<>>)

\* C6: the loop is left only when end-of-input is read, and then the exit
\* message is printed; no command stops the script.
C6_LoopLeftOnlyAtEndOfInput ==
    /\ pc = "crashed" => last.op = "ModManager"
    /\ pc = "exited" => (last.op = "EOFError" /\ stdout = <<exit_message>>)

====
